---- MODULE Spec2Model ----
(***************************************************************************)
(* Model of the pointer-to-structured-access lowering of triton-shared:    *)
(*   - TritonLoadStoreToMemrefPass.cpp: the four conversion patterns       *)
(*     (ScalarLoadConverter, ScalarStoreConverter, LoadOpConverter,        *)
(*     StoreOpConverter), the code they emit and what that code computes   *)
(*     on a buffer;                                                        *)
(*   - TritonToStructuredPass.cpp: the stages of the pass driver           *)
(*     (test / runOnOperation) and the bridging casts they leave behind.   *)
(*                                                                         *)
(* The buffer behind the base pointer found by getPtr is modelled as a     *)
(* function from element offsets (relative to that base) to values; only   *)
(* the offsets in Addrs are tracked.                                       *)
(***************************************************************************)
EXTENDS Integers, Sequences, FiniteSets, TLC

(* ---------------------------------------------------------------------- *)
(* Bounds and program constants                                           *)
(* ---------------------------------------------------------------------- *)

\* size of the buffer view LoadOpConverter reads through (reinterpret_cast)
ViewSize == 1024

\* largest number of elements of an accessed tensor
MaxElems == 2
\* memory cells and stored values range over 0..MaxVal
MaxVal == 1
\* largest number of loop-carried pointer values of an input program
MaxItems == 3
\* largest number of elements of a stored tensor when the order of the
\* stores is followed
MaxOrderElems == 4

Vals == 0 .. MaxVal

\* the element offsets tracked: the last cell inside the 1024-element view
\* and the first cell behind it
Addrs == {ViewSize - 1, ViewSize}

IntTypes == {"i32", "i64"}

FloatTypes == {"f32", "f16"}

ElemTypes == IntTypes \cup FloatTypes

\* a scalar access may also move a pointer (pointer to pointer)
ScalarTypes == ElemTypes \cup {"ptr"}

\* number of cells of the buffer behind the base pointer
BufferSize == ViewSize + 1

RECURSIVE Prod(_)
Prod(s) == IF s = <<>> THEN 1 ELSE Head(s) * Prod(Tail(s))

\* static shapes of the accessed tensors: one- and two-dimensional
Shapes ==
    {s \in {<<d>> : d \in 1 .. MaxElems}
            \cup ((1 .. MaxElems) \X (1 .. MaxElems)) :
        Prod(s) <= MaxElems}

VARIABLES
    mem,        \* buffer contents: [Addrs -> Vals]
    mem0,       \* buffer contents before the access ran (history)
    acc,        \* the tt.load / tt.store being converted
    tried,      \* patterns that were applied to acc and returned failure()
    result,     \* outcome of the conversion of acc
    emitted,    \* the code the successful pattern emitted
    out,        \* value the lowered load produced, by row-major position
    ivs,        \* induction variables of the emitted store loop nest
    written,    \* the memref.store executions so far: position and cell
    visits,     \* the index tuples the store loop body ran on, in order
    phase,      \* "convert", "run", "end"
    tsPc,       \* position inside TritonToStructuredPass::runOnOperation
    items,      \* loop-carried pointer values of the input program
    convOk,     \* whether applyPartialOneToNConversion succeeds on the input
    canonOk,    \* whether the canonicalizer pipeline succeeds on the input
    converted,  \* items whose scf signature has been rewritten
    casts,      \* unrealized_conversion_cast ops in the program
    deleted,    \* casts erased by the canonicalizer before being resolved
    testResult, \* value returned by test()
    passFailed, \* signalPassFailure() was called
    ptrAnalysisStarted  \* PtrAnalysis::rewriteOp was entered

lowerVars == <<mem, mem0, acc, tried, result, emitted, out, ivs, written,
               visits, phase>>
structVars == <<tsPc, items, convOk, canonOk, converted, casts, deleted,
                testResult, passFailed, ptrAnalysisStarted>>
vars == <<mem, mem0, acc, tried, result, emitted, out, ivs, written, visits,
          phase,
          tsPc, items, convOk, canonOk, converted, casts, deleted,
          testResult, passFailed, ptrAnalysisStarted>>

(* ---------------------------------------------------------------------- *)
(* The accesses                                                           *)
(* ---------------------------------------------------------------------- *)

NumElems(a) == Prod(a.shape)

Positions(a) == 1 .. NumElems(a)

AllTrue(n) == [p \in 1 .. n |-> TRUE]

NoValue(n) == [p \in 1 .. n |-> 0]

\* a tt.load / tt.store: whether it moves a tensor, whether its pointer is
\* defined by a resolved create-pointer op, the element type, the shape, the
\* offsets of the create-pointer op, the optional mask and the stored value
\* (the last three by row-major position)
Access(k, tn, r, t, s, o, hm, m, v) ==
    [kind |-> k, tensor |-> tn, resolved |-> r, elemType |-> t, shape |-> s,
     offsets |-> o, hasMask |-> hm, mask |-> m, value |-> v]

\* tensor accesses: tt.load / tt.store on a tensor of pointers, with or
\* without a mask operand
IsTensorLoad(a) ==
    \E r \in BOOLEAN, t \in ElemTypes, s \in Shapes :
        \E o \in [1 .. Prod(s) -> Addrs] :
            \/ a = Access("load", TRUE, r, t, s, o, FALSE,
                          AllTrue(Prod(s)), NoValue(Prod(s)))
            \/ \E m \in [1 .. Prod(s) -> BOOLEAN] :
                  a = Access("load", TRUE, r, t, s, o, TRUE, m,
                             NoValue(Prod(s)))

IsTensorStore(a) ==
    \E r \in BOOLEAN, t \in ElemTypes, s \in Shapes :
        \E o \in [1 .. Prod(s) -> Addrs], v \in [1 .. Prod(s) -> Vals] :
            \/ a = Access("store", TRUE, r, t, s, o, FALSE,
                          AllTrue(Prod(s)), v)
            \/ \E m \in [1 .. Prod(s) -> BOOLEAN] :
                  a = Access("store", TRUE, r, t, s, o, TRUE, m, v)

\* scalar accesses: the offset of the create-pointer op is one integer
IsScalarLoad(a) ==
    \E r \in BOOLEAN, t \in ScalarTypes, k \in Addrs :
        a = Access("load", FALSE, r, t, <<>>, <<k>>, FALSE, AllTrue(1),
                   NoValue(1))

IsScalarStore(a) ==
    \E r \in BOOLEAN, t \in ScalarTypes, k \in Addrs, v \in Vals :
        a = Access("store", FALSE, r, t, <<>>, <<k>>, FALSE, AllTrue(1),
                   <<v>>)

(* ---------------------------------------------------------------------- *)
(* Types and emitted code                                                 *)
(* ---------------------------------------------------------------------- *)

\* type of the value a tt.load returns / a tt.store stores
ValueType(a) == IF a.tensor THEN "tensor" ELSE a.elemType

IsIntOrIndexOrFloat(ty) == ty \in IntTypes \cup FloatTypes

IsInteger(ty) == ty \in IntTypes

\* dyn_cast<ShapedType>(offsets.getType()) of the create-pointer op
OffsetIsShaped(a) == a.tensor

\* type of the constant the else branch of the masked load yields
ZeroFillType(ty) == IF IsInteger(ty) THEN "i32" ELSE "f32"

NoCode ==
    [form |-> "none", viewOffset |-> 0, viewSize |-> 0, viewStride |-> <<>>,
     masked |-> FALSE, fillType |-> "none", loops |-> <<>>]

\* memref.reinterpret_cast at the scalar offset, sizes {1}, strides {1},
\* then one affine.load / affine.store at index 0
ScalarCode(a, f) ==
    [form |-> f, viewOffset |-> a.offsets[1], viewSize |-> 1,
     viewStride |-> <<1>>, masked |-> FALSE, fillType |-> "none",
     loops |-> <<>>]

\* memref.reinterpret_cast at offset 0, sizes {1024}, strides {1}, read by a
\* linalg.generic with one tensor.extract per element
GenericCode(a) ==
    [form |-> "generic", viewOffset |-> 0, viewSize |-> ViewSize,
     viewStride |-> <<1>>, masked |-> a.hasMask,
     fillType |-> IF a.hasMask THEN ZeroFillType(a.elemType) ELSE "none",
     loops |-> <<>>]

\* memref.cast of the base to memref<?xT>, one affine.for per dimension
LoopStoreCode(a) ==
    [form |-> "loop_store", viewOffset |-> 0, viewSize |-> BufferSize,
     viewStride |-> <<1>>, masked |-> a.hasMask, fillType |-> "none",
     loops |-> a.shape]

(* ---------------------------------------------------------------------- *)
(* What the emitted code computes                                         *)
(* ---------------------------------------------------------------------- *)

\* values a read at index idx of a view [off, off + size) can return: the
\* cell inside the view; a read outside the view is undefined behaviour
ViewReads(m, off, size, idx) ==
    IF idx >= 0 /\ idx < size THEN {m[off + idx]} ELSE Vals

\* values the body of the linalg.generic can yield at position p
GenericYields(m, a, c, p) ==
    IF c.masked /\ ~a.mask[p]
    THEN {0}
    ELSE ViewReads(m, c.viewOffset, c.viewSize, a.offsets[p])

StoreExecutes_Unguarded(a, c, p) == TRUE

\* whether the loop body executes its memref.store at position p
StoreExecutes(a, c, p) == ~c.masked \/ a.mask[p]

RECURSIVE RowMajor(_, _)
\* position (from 0) of the index tuple iv in a tensor of the given shape
RowMajor(iv, shape) ==
    IF iv = <<>> THEN 0
    ELSE RowMajor(SubSeq(iv, 1, Len(iv) - 1),
                  SubSeq(shape, 1, Len(shape) - 1)) * shape[Len(shape)]
         + iv[Len(iv)]

RECURSIVE Advance_OuterFastest(_, _)
Advance_OuterFastest(iv, bounds) ==
    IF iv = <<>> THEN <<>>
    ELSE IF iv[1] + 1 < bounds[1]
         THEN [iv EXCEPT ![1] = iv[1] + 1]
         ELSE LET inner == Advance_OuterFastest(Tail(iv), Tail(bounds)) IN
              IF inner = <<>> THEN <<>> ELSE <<0>> \o inner

RECURSIVE Advance(_, _)
\* next index tuple of the loop nest (outermost loop first); <<>> when the
\* outermost loop has finished
Advance(iv, bounds) ==
    IF iv = <<>> THEN <<>>
    ELSE LET n == Len(iv) IN
         IF iv[n] + 1 < bounds[n]
         THEN [iv EXCEPT ![n] = iv[n] + 1]
         ELSE LET outer == Advance(SubSeq(iv, 1, n - 1),
                                   SubSeq(bounds, 1, n - 1)) IN
              IF outer = <<>> THEN <<>> ELSE Append(outer, 0)

ZeroIvs(bounds) == [d \in 1 .. Len(bounds) |-> 0]

(* ---------------------------------------------------------------------- *)
(* The conversion patterns of TritonLoadStoreToMemrefPass                 *)
(* ---------------------------------------------------------------------- *)

\* the patterns rooted at the operation of access a
PatternsFor(a) ==
    IF a.kind = "load" THEN {"LoadOpConverter", "ScalarLoadConverter"}
    ELSE {"StoreOpConverter", "ScalarStoreConverter"}

\* return failure(): the driver goes on to the next pattern
PatternFails(pat) ==
    /\ tried' = tried \cup {pat}
    /\ UNCHANGED <<result, emitted, ivs, phase>>

\* getDefiningOp<tts::CreatePtrOp>() returned null and the pattern uses the
\* result unchecked: undefined behaviour.  The process dies, or it goes on
\* with a stray descriptor and emits an access at an arbitrary offset.
NullDescriptorUse ==
    /\ \/ /\ result' = "crash"
          /\ emitted' = emitted
       \/ /\ result' = "garbage"
          /\ \E k \in Addrs :
                emitted' = [NoCode EXCEPT !.form = "garbage",
                                          !.viewOffset = k]
    /\ phase' = "end"
    /\ UNCHANGED <<tried, ivs>>

\* the pattern rewrote the operation into code c
PatternEmits(c) ==
    /\ result' = "success"
    /\ emitted' = c
    /\ ivs' = ZeroIvs(c.loops)
    /\ phase' = "run"
    /\ UNCHANGED tried

ScalarLoadConverter ==
    /\ phase = "convert"
    /\ acc.kind = "load"
    /\ "ScalarLoadConverter" \notin tried
    /\ IF ~IsIntOrIndexOrFloat(ValueType(acc))
       THEN PatternFails("ScalarLoadConverter")
       ELSE IF ~acc.resolved
            THEN NullDescriptorUse
            ELSE PatternEmits(ScalarCode(acc, "affine_load"))
    /\ UNCHANGED <<mem, mem0, acc, out, written, visits>>
    /\ UNCHANGED structVars

ScalarStoreConverter ==
    /\ phase = "convert"
    /\ acc.kind = "store"
    /\ "ScalarStoreConverter" \notin tried
    /\ IF ~IsIntOrIndexOrFloat(ValueType(acc))
       THEN PatternFails("ScalarStoreConverter")
       ELSE IF ~acc.resolved
            THEN NullDescriptorUse
            ELSE PatternEmits(ScalarCode(acc, "affine_store"))
    /\ UNCHANGED <<mem, mem0, acc, out, written, visits>>
    /\ UNCHANGED structVars

LoadOpConverter ==
    /\ phase = "convert"
    /\ acc.kind = "load"
    /\ "LoadOpConverter" \notin tried
    /\ IF ~acc.resolved
       THEN NullDescriptorUse
       ELSE IF ~OffsetIsShaped(acc)
            THEN PatternFails("LoadOpConverter")
            ELSE PatternEmits(GenericCode(acc))
    /\ UNCHANGED <<mem, mem0, acc, out, written, visits>>
    /\ UNCHANGED structVars

StoreOpConverter ==
    /\ phase = "convert"
    /\ acc.kind = "store"
    /\ "StoreOpConverter" \notin tried
    /\ IF ~acc.resolved
       THEN NullDescriptorUse
       ELSE IF ~OffsetIsShaped(acc)
            THEN PatternFails("StoreOpConverter")
            ELSE PatternEmits(LoopStoreCode(acc))
    /\ UNCHANGED <<mem, mem0, acc, out, written, visits>>
    /\ UNCHANGED structVars

\* no pattern legalized the illegal tt.load / tt.store:
\* applyPartialConversion fails and the pass signals failure
LegalizeFails ==
    /\ phase = "convert"
    /\ PatternsFor(acc) \subseteq tried
    /\ result' = "illegal"
    /\ phase' = "end"
    /\ UNCHANGED <<mem, mem0, acc, tried, emitted, out, ivs, written,
                   visits>>
    /\ UNCHANGED structVars

(* ---------------------------------------------------------------------- *)
(* Running the emitted code                                               *)
(* ---------------------------------------------------------------------- *)

\* affine.load at index 0 of the one-element view
RunAffineLoad ==
    /\ phase = "run"
    /\ emitted.form = "affine_load"
    /\ \E v \in ViewReads(mem, emitted.viewOffset, emitted.viewSize, 0) :
          out' = <<v>>
    /\ phase' = "end"
    /\ UNCHANGED <<mem, mem0, acc, tried, result, emitted, ivs, written,
                   visits>>
    /\ UNCHANGED structVars

\* affine.store at index 0 of the one-element view
RunAffineStore ==
    /\ phase = "run"
    /\ emitted.form = "affine_store"
    /\ mem' = [mem EXCEPT ![emitted.viewOffset] = acc.value[1]]
    /\ written' = written \cup {[pos |-> 1, addr |-> emitted.viewOffset]}
    /\ visits' = visits
    /\ phase' = "end"
    /\ UNCHANGED <<mem0, acc, tried, result, emitted, out, ivs>>
    /\ UNCHANGED structVars

\* the linalg.generic: every element is computed independently
RunGeneric ==
    /\ phase = "run"
    /\ emitted.form = "generic"
    /\ \E f \in [Positions(acc) -> Vals] :
          /\ \A p \in Positions(acc) :
                f[p] \in GenericYields(mem, acc, emitted, p)
          /\ out' = f
    /\ phase' = "end"
    /\ UNCHANGED <<mem, mem0, acc, tried, result, emitted, ivs, written,
                   visits>>
    /\ UNCHANGED structVars

\* one iteration of the innermost loop body of the store loop nest
RunStoreIteration ==
    /\ phase = "run"
    /\ emitted.form = "loop_store"
    /\ LET p == RowMajor(ivs, emitted.loops) + 1
           next == Advance(ivs, emitted.loops) IN
       /\ IF StoreExecutes(acc, emitted, p)
          THEN /\ mem' = [mem EXCEPT ![acc.offsets[p]] = acc.value[p]]
               /\ written' = written \cup {[pos |-> p, addr |-> acc.offsets[p]]}
          ELSE UNCHANGED <<mem, written>>
       /\ visits' = Append(visits, [iv |-> ivs,
                                    stored |-> StoreExecutes(acc, emitted, p)])
       /\ IF next = <<>>
          THEN /\ phase' = "end"
               /\ ivs' = ivs
          ELSE /\ phase' = phase
               /\ ivs' = next
    /\ UNCHANGED <<mem0, acc, tried, result, emitted, out>>
    /\ UNCHANGED structVars

(* ---------------------------------------------------------------------- *)
(* TritonToStructuredPass                                                 *)
(* ---------------------------------------------------------------------- *)
(* The input program is abstracted to its pointer values carried through  *)
(* structured control flow (scf.for iter_args and the like).  Of each:    *)
(*   tensor   whether it is a tensor of pointers (else a scalar pointer); *)
(*   bodyUse  how operations that still need the pointer type use it:     *)
(*            "none", "dead" (only by side-effect free operations whose   *)
(*            results are unused) or "live";                              *)
(*   rank     the rank of the tensor of pointers (0 for a scalar pointer). *)

BodyUses == {"none", "dead", "live"}

\* ranks of the tensors of pointers of the input programs
PtrTensorRanks == {1, 2}

Items ==
    [tensor : {FALSE}, bodyUse : BodyUses, rank : {0}]
    \cup [tensor : {TRUE}, bodyUse : BodyUses, rank : PtrTensorRanks]

Programs == UNION {[1 .. n -> Items] : n \in 0 .. MaxItems}

\* the converter of test(): a ranked tensor of pointers becomes a tuple,
\* every other type is kept
ConvertsType(it) == it.tensor

\* the type of the value before the conversion
PointerTypeOf(it) ==
    IF it.tensor THEN [kind |-> "tensor_ptr", rank |-> it.rank]
    ELSE [kind |-> "ptr", rank |-> 0]

\* the conversions registered on the converter of test(): the identity, and
\* tensor of pointers -> tuple<tensor, tuple<index x rank>, tuple<index x rank>>
ConvertType(it) ==
    IF it.tensor
    THEN [kind |-> "tuple", base |-> PointerTypeOf(it),
          offsets |-> [d \in 1 .. it.rank |-> "index"],
          strides |-> [d \in 1 .. it.rank |-> "index"]]
    ELSE PointerTypeOf(it)

\* the type item i has in the program once the items in conv are rewritten
TypeOf(prog, conv, i) ==
    IF i \in conv THEN ConvertType(prog[i]) ELSE PointerTypeOf(prog[i])

\* target materialization: pointer value -> tuple, tagged make_state
buildCastAndOffsetOps(i) == [item |-> i, tag |-> "make_state"]

\* argument / source materialization: tuple -> pointer value, tagged
\* state_placeholder
buildCastOp(i) == [item |-> i, tag |-> "state_placeholder"]

\* the casts the conversion of the signature of item i materializes
Materialized(prog, i) ==
    {buildCastAndOffsetOps(i)}
    \cup (IF prog[i].bodyUse = "none" THEN {} ELSE {buildCastOp(i)})

\* casts the canonicalizer erases: those whose only users are dead
ErasedByCanonicalizer(prog, cs) ==
    {c \in cs : c.tag = "state_placeholder" /\ prog[c.item].bodyUse = "dead"}

\* a scf structural pattern rewrites the signature of one item
ConvertSignature ==
    /\ tsPc = "convert"
    /\ \E i \in DOMAIN items :
          /\ ConvertsType(items[i])
          /\ i \notin converted
          /\ converted' = converted \cup {i}
          /\ casts' = casts \cup Materialized(items, i)
    /\ UNCHANGED <<tsPc, items, convOk, canonOk, deleted, testResult,
                   passFailed, ptrAnalysisStarted>>
    /\ UNCHANGED lowerVars

\* applyPartialOneToNConversion succeeded
ConversionSucceeds ==
    /\ tsPc = "convert"
    /\ convOk
    /\ \A i \in DOMAIN items : ConvertsType(items[i]) => i \in converted
    /\ tsPc' = "canonicalize"
    /\ UNCHANGED <<items, convOk, canonOk, converted, casts, deleted,
                   testResult, passFailed, ptrAnalysisStarted>>
    /\ UNCHANGED lowerVars

\* applyPartialOneToNConversion failed (a conversion of some signature could
\* not be applied): test() returns failure(); what was rewritten so far
\* stays rewritten
ConversionFails ==
    /\ tsPc = "convert"
    /\ ~convOk
    /\ testResult' = "failure"
    /\ tsPc' = "return"
    /\ UNCHANGED <<items, convOk, canonOk, converted, casts, deleted,
                   passFailed, ptrAnalysisStarted>>
    /\ UNCHANGED lowerVars

\* the canonicalizer pipeline test() runs right after the conversion
RunCanonicalizer ==
    /\ tsPc = "canonicalize"
    /\ casts' = casts \ ErasedByCanonicalizer(items, casts)
    /\ deleted' = deleted \cup ErasedByCanonicalizer(items, casts)
    /\ testResult' = IF canonOk THEN "success" ELSE "failure"
    /\ tsPc' = "return"
    /\ UNCHANGED <<items, convOk, canonOk, converted, passFailed,
                   ptrAnalysisStarted>>
    /\ UNCHANGED lowerVars

\* runOnOperation: (void)test(); return;  The result of test() is dropped
\* and the statements behind the return (PtrAnalysis) are never reached.
RunOnOperationReturns ==
    /\ tsPc = "return"
    /\ tsPc' = "done"
    /\ UNCHANGED <<items, convOk, canonOk, converted, casts, deleted,
                   testResult, passFailed, ptrAnalysisStarted>>
    /\ UNCHANGED lowerVars

LowerIdle ==
    /\ mem = [a \in Addrs |-> 0]
    /\ mem0 = mem
    /\ acc = [kind |-> "none"]
    /\ tried = {}
    /\ result = "none"
    /\ emitted = NoCode
    /\ out = <<>>
    /\ ivs = <<>>
    /\ written = {}
    /\ visits = <<>>
    /\ phase = "idle"

InitStructured ==
    /\ tsPc = "convert"
    /\ items \in Programs
    /\ convOk \in BOOLEAN
    /\ ~convOk => \E i \in DOMAIN items : ConvertsType(items[i])
    /\ canonOk \in BOOLEAN
    /\ converted = {}
    /\ casts = {}
    /\ deleted = {}
    /\ testResult = "none"
    /\ passFailed = FALSE
    /\ ptrAnalysisStarted = FALSE
    /\ LowerIdle

NextStructured ==
    \/ ConvertSignature
    \/ ConversionSucceeds
    \/ ConversionFails
    \/ RunCanonicalizer
    \/ RunOnOperationReturns

SpecStructured == InitStructured /\ [][NextStructured]_vars

StructIdle ==
    /\ tsPc = "idle"
    /\ items = <<>>
    /\ convOk = TRUE
    /\ canonOk = TRUE
    /\ converted = {}
    /\ casts = {}
    /\ deleted = {}
    /\ testResult = "none"
    /\ passFailed = FALSE
    /\ ptrAnalysisStarted = FALSE

Init ==
    /\ mem \in [Addrs -> Vals]
    /\ mem0 = mem
    /\ \/ IsScalarLoad(acc)
       \/ IsScalarStore(acc)
       \/ IsTensorLoad(acc)
       \/ IsTensorStore(acc)
    /\ tried = {}
    /\ result = "none"
    /\ emitted = NoCode
    /\ out = <<>>
    /\ ivs = <<>>
    /\ written = {}
    /\ visits = <<>>
    /\ phase = "convert"
    /\ StructIdle

Next ==
    \/ ScalarLoadConverter
    \/ ScalarStoreConverter
    \/ LoadOpConverter
    \/ StoreOpConverter
    \/ LegalizeFails
    \/ RunAffineLoad
    \/ RunAffineStore
    \/ RunGeneric
    \/ RunStoreIteration

Spec == Init /\ [][Next]_vars

(* ---------------------------------------------------------------------- *)
(* Tensor stores, followed store by store                                 *)
(* ---------------------------------------------------------------------- *)
(* The stored tensor holds the row-major number of each position, and the *)
(* buffer starts zeroed, so that a cell tells which position stored to it *)
(* last.                                                                  *)

StoreOrderShapes ==
    {s \in {<<d>> : d \in 1 .. MaxOrderElems}
            \cup ((1 .. MaxOrderElems) \X (1 .. MaxOrderElems)) :
        Prod(s) <= MaxOrderElems}

PositionNumbers(n) == [p \in 1 .. n |-> p]

IsNumberedTensorStore(a) ==
    \E r \in BOOLEAN, t \in ElemTypes, s \in StoreOrderShapes :
        \E o \in [1 .. Prod(s) -> Addrs] :
            \/ a = Access("store", TRUE, r, t, s, o, FALSE,
                          AllTrue(Prod(s)), PositionNumbers(Prod(s)))
            \/ \E m \in [1 .. Prod(s) -> BOOLEAN] :
                  a = Access("store", TRUE, r, t, s, o, TRUE, m,
                             PositionNumbers(Prod(s)))

InitStoreOrder ==
    /\ mem = [a \in Addrs |-> 0]
    /\ mem0 = mem
    /\ IsNumberedTensorStore(acc)
    /\ tried = {}
    /\ result = "none"
    /\ emitted = NoCode
    /\ out = <<>>
    /\ ivs = <<>>
    /\ written = {}
    /\ visits = <<>>
    /\ phase = "convert"
    /\ StructIdle

NextStoreOrder ==
    \/ ScalarStoreConverter
    \/ StoreOpConverter
    \/ RunStoreIteration

SpecStoreOrder == InitStoreOrder /\ [][NextStoreOrder]_vars

(* ---------------------------------------------------------------------- *)
(* Properties                                                             *)
(* ---------------------------------------------------------------------- *)

\* a tensor load that LoadOpConverter lowered and whose code has run
LoadedTensor ==
    /\ phase = "end"
    /\ result = "success"
    /\ emitted.form = "generic"

\* C1: in a masked tensor load, an element whose mask bit is false is the
\* zero of the element type whatever the memory holds, and an element whose
\* mask bit is true is the memory content at base + offset
C1_MaskedLoadSemantics ==
    (LoadedTensor /\ acc.hasMask) =>
        \A p \in Positions(acc) :
            IF acc.mask[p]
            THEN out[p] = mem[acc.offsets[p]]
            ELSE out[p] = 0

\* a masked tensor store that StoreOpConverter lowered
MaskedLoopStore ==
    /\ result = "success"
    /\ emitted.form = "loop_store"
    /\ acc.hasMask

\* C2: in a masked tensor store a store instruction is executed only for
\* positions whose mask bit is true, and a cell differs from its content
\* before the store only if a position with a true mask bit addresses it
C2_MaskedStoreFrame ==
    MaskedLoopStore =>
        /\ \A w \in written :
              acc.mask[w.pos] /\ w.addr = acc.offsets[w.pos]
        /\ \A a \in Addrs :
              mem[a] # mem0[a] =>
                  \E p \in Positions(acc) :
                      acc.mask[p] /\ acc.offsets[p] = a

\* a finished masked store with a masked-out position whose cell no other
\* position addresses and whose value differs from the cell, next to a
\* position that did change memory
C2_Witness ==
    /\ MaskedLoopStore
    /\ phase = "end"
    /\ mem # mem0
    /\ \E p \in Positions(acc) :
          /\ ~acc.mask[p]
          /\ acc.value[p] # mem0[acc.offsets[p]]
          /\ \A q \in Positions(acc) :
                acc.mask[q] => acc.offsets[q] # acc.offsets[p]

\* C3: every element of an unmasked tensor load is the memory content at
\* base + offset, also for offsets of 1024 and more
C3_UnmaskedLoadSemantics ==
    (LoadedTensor /\ ~acc.hasMask) =>
        \A p \in Positions(acc) : out[p] = mem[acc.offsets[p]]

\* C4: the tensor form evaluated on a one-element tensor with offset k
\* yields the value the scalar fast path reads (one-element view at offset
\* k, index 0)
C4_ScalarFastPathEquivalence ==
    (LoadedTensor /\ ~acc.hasMask /\ NumElems(acc) = 1) =>
        out[1] \in ViewReads(mem, ScalarCode(acc, "affine_load").viewOffset,
                             ScalarCode(acc, "affine_load").viewSize, 0)

\* C5: once the TritonToStructured pass has finished without signalling
\* failure no bridging cast is left in the program
C5_NoBridgingCastRemains ==
    (tsPc = "done" /\ testResult = "success" /\ ~passFailed) => casts = {}

\* C6: a failed structural type conversion is signalled as pass failure
\* and leaves nothing converted
C6_ConversionFailureSurfaces ==
    (tsPc = "done" /\ ~convOk) => (passFailed /\ converted = {})

\* C7: an access whose pointer has no resolved descriptor is refused by
\* the patterns: the missing descriptor is never used and no memory
\* operation is emitted for it
C7_UnresolvedIsRefused ==
    (phase # "idle" /\ ~acc.resolved) =>
        /\ result \in {"none", "illegal"}
        /\ emitted = NoCode

IndexTuples(shape) ==
    {iv \in [1 .. Len(shape) -> 0 .. (Prod(shape) - 1)] :
        \A d \in 1 .. Len(shape) : iv[d] < shape[d]}

RECURSIVE Dot(_, _)
Dot(iv, st) ==
    IF iv = <<>> THEN 0 ELSE Head(iv) * Head(st) + Dot(Tail(iv), Tail(st))

\* the strides st with offset(iv) = offset(0) + sum_d iv[d] * st[d]
AffineStrides(a) ==
    {st \in [1 .. Len(a.shape) -> {y - x : x \in Addrs, y \in Addrs}] :
        \A iv \in IndexTuples(a.shape) :
            a.offsets[RowMajor(iv, a.shape) + 1] = a.offsets[1] + Dot(iv, st)}

\* C8: an unmasked tensor load whose offsets are affine in the indices is
\* lowered to one strided view with the derived strides, not to an
\* elementwise grid
C8_AffineLoadIsStridedView ==
    (result = "success" /\ acc.kind = "load" /\ acc.tensor
        /\ ~acc.hasMask /\ AffineStrides(acc) # {}) =>
        /\ emitted.form = "strided_view"
        /\ emitted.viewStride \in AffineStrides(acc)

\* the type conversion stage of the pass ran to completion
ConversionCompleted ==
    convOk /\ tsPc \in {"canonicalize", "return", "done"}

\* C9: Pointer Analysis starts only after the type conversion completed,
\* and no run ends with the conversion completed and Pointer Analysis
\* never started
C9_AnalysisFollowsConversion ==
    /\ ptrAnalysisStarted => ConversionCompleted
    /\ (tsPc = "done" /\ ConversionCompleted) => ptrAnalysisStarted

\* C10: the canonicalizer never runs on a program that holds placeholder
\* casts awaiting resolution, and erases none of them
C10_NoSimplificationBeforeResolution ==
    [][(tsPc = "canonicalize" /\ tsPc' # "canonicalize") =>
          (casts = {} /\ deleted' = {})]_vars

\* C11: the constant the else branch of a masked tensor load yields has
\* exactly the element type of the load, for every integer and floating
\* point width; code with a mismatching constant is never emitted
C11_ZeroFillTypeMatches ==
    (result = "success" /\ emitted.form = "generic" /\ emitted.masked) =>
        emitted.fillType = acc.elemType

\* C12: once the type conversion has completed every pointer-typed value,
\* scalar pointer or tensor of pointers, has become a tuple {pointer,
\* offsets, strides}, with as many offsets and as many strides as the rank
\* of the tensor of pointers
C12_EveryPointerBecomesTuple ==
    ConversionCompleted =>
        \A i \in DOMAIN items :
            /\ TypeOf(items, converted, i).kind = "tuple"
            /\ items[i].tensor =>
                  /\ Len(TypeOf(items, converted, i).offsets) = items[i].rank
                  /\ Len(TypeOf(items, converted, i).strides) = items[i].rank

\* a tensor store that StoreOpConverter lowered
LoopStore ==
    /\ result = "success"
    /\ emitted.form = "loop_store"

\* the last position, in row-major order, whose offset is the cell addr
LastPositionAt(a, addr) ==
    CHOOSE q \in Positions(a) :
        /\ a.offsets[q] = addr
        /\ \A q2 \in Positions(a) : a.offsets[q2] = addr => q2 <= q

\* C13: a tensor store becomes one loop per dimension, nested in dimension
\* order with bounds [0, di); the body runs on every index tuple exactly
\* once, in row-major order, with at most one store per tuple; an unmasked
\* store writes every element exactly once and a cell addressed by several
\* positions ends with the value of the last of them in row-major order
C13_StoreLoopOrder ==
    LoopStore =>
        /\ emitted.loops = acc.shape
        /\ Len(visits) <= NumElems(acc)
        /\ \A k \in 1 .. Len(visits) :
              /\ visits[k].iv \in IndexTuples(acc.shape)
              /\ RowMajor(visits[k].iv, acc.shape) = k - 1
              /\ ~acc.hasMask => visits[k].stored
        /\ Cardinality(written)
              = Cardinality({k \in 1 .. Len(visits) : visits[k].stored})
        /\ phase = "end" =>
              /\ Len(visits) = NumElems(acc)
              /\ ~acc.hasMask =>
                    \A p \in Positions(acc) :
                        mem[acc.offsets[p]]
                          = acc.value[LastPositionAt(acc, acc.offsets[p])]

\* a finished unmasked store of a 2 x 2 tensor in which a position of the
\* first row and a position of the second row address the same cell
C13_Witness ==
    /\ LoopStore
    /\ phase = "end"
    /\ acc.shape = <<2, 2>>
    /\ ~acc.hasMask
    /\ acc.offsets[2] = acc.offsets[3]
    /\ mem[acc.offsets[2]] = acc.value[3]
    /\ Len(visits) = 4

\* the condition under which a scalar pattern rewrites the access
ScalarPatternMatches(a) == IsIntOrIndexOrFloat(ValueType(a))

\* the condition under which a tensor pattern rewrites the access
TensorPatternMatches(a) == OffsetIsShaped(a)

\* C14: at most one of the scalar and the tensor pattern rewrites an
\* access; when the conversion ends without failure the tt.load / tt.store
\* has been replaced; an access neither pattern matches is never rewritten
\* and ends with the pass signalling failure
C14_PatternsExclusiveAndComplete ==
    phase # "idle" =>
        /\ ~(ScalarPatternMatches(acc) /\ TensorPatternMatches(acc))
        /\ result = "success" =>
              /\ emitted # NoCode
              /\ emitted.form \in {"affine_load", "affine_store"}
                    <=> ScalarPatternMatches(acc)
              /\ emitted.form \in {"generic", "loop_store"}
                    <=> TensorPatternMatches(acc)
        /\ (~ScalarPatternMatches(acc) /\ ~TensorPatternMatches(acc)) =>
              /\ result \in {"none", "illegal"}
              /\ phase = "end" => result = "illegal"

====
